---- MODULE Spec2Model ----
(***************************************************************************)
(* State-machine model of the device-mapping-manager daemon (src/main.go). *)
(*                                                                         *)
(* Two goroutines run reconciliation passes: "main" (startup scan, then    *)
(* the start-event loop of listenForMounts) and "dbus" (the listener that  *)
(* re-runs checkExistingContainers on every Reloading signal).  A pass     *)
(* over one container is split into the steps at which the other goroutine *)
(* can be scheduled: inspect + version detection, one step per mount, one  *)
(* step per file handed to applyDeviceRules, and for the V2 backend the    *)
(* attach of the program.                                                  *)
(*                                                                         *)
(* Paths are sequences of one-character strings, so that                   *)
(* strings.HasPrefix and path.Join are computed character by character.    *)
(*                                                                         *)
(* The package device-volume-driver/internal/cgroup is imported by         *)
(* main.go; its operations (version detection, path resolution,            *)
(* AddDeviceRules) are modelled from their contract: sections 4.2 - 4.4    *)
(* and 5 of the design.                                                    *)
(***************************************************************************)
EXTENDS Integers, Sequences, FiniteSets, TLC

VARIABLES
    bus,        \* outcome of dbus.SystemBus / AddMatchSignal: "ok", "connfail", "matchfail"
    running,    \* containers the runtime lists (ContainerList)
    subscribed, \* cli.Events has been called: start events are delivered
    events,     \* the msgs channel of listenForMounts: container ids
    signals,    \* the channel c of main: the number of D-Bus signals not yet read
    sig,        \* the listener's loop variable v: the signal it has just read
    pc,         \* position of each goroutine
    cur,        \* container of the pass a goroutine is in ("none" outside a pass)
    scanList,   \* containers left in the goroutine's checkExistingContainers loop
    mi,         \* index into info.Mounts of the pass (0: the loop was not entered)
    todo,       \* files of the current mount still to be handed to applyDeviceRules
    cgp,        \* the local cgroupPath of processContainer
    lock,       \* cgroup backend: holder of the per-path serialization, or "free"
    snap,       \* cgroup backend: the accumulated record read by a pending V2 attach
    record,     \* cgroup backend: rules ever applied to a V2 path, per cgroup path
    kernel,     \* effective allow-set per cgroup path (V1 list / V2 attached program)
    crashed,    \* why and where the process terminated, or NoCrash
    active,     \* the listener's local "active", from the signal read to the scan it starts
    version,    \* the local version of processContainer ("none" outside a pass)
    nStarts,    \* start events delivered so far
    nSignals,   \* signals delivered so far
    probe,      \* resolver on its own: the stat result handed to getDeviceInfo
    out         \* resolver on its own: what applyDeviceRules made of the probe

daemonVars == <<bus, running, subscribed, events, signals, sig, pc, cur, scanList, mi,
                todo, cgp, lock, snap, record, kernel, crashed, active, nStarts,
                nSignals, version>>

vars == <<bus, running, subscribed, events, signals, sig, pc, cur, scanList, mi, todo,
          cgp, lock, snap, record, kernel, crashed, active, nStarts, nSignals,
          version, probe, out>>

----------------------------------------------------------------------------
(* Bounds of the model *)

MaxStarts == 1      \* start events the runtime delivers after the subscription
MaxSignals == 1     \* signals the bus delivers
MaxMajor == 2       \* device numbers of the stat results the resolver is run on
MaxMinor == 2

(* Program constants *)

ChanCap == 10       \* make(chan *dbus.Signal, 10)

----------------------------------------------------------------------------
(* Paths *)

ROOT_PATH == <<"/", "h", "o", "s", "t">>
DEV == <<"/", "d", "e", "v">>
CgroupRoot == <<"/">>
ReloadingName == "org.freedesktop.systemd1.Manager.Reloading"

HasPrefix(s, p) == Len(s) >= Len(p) /\ SubSeq(s, 1, Len(p)) = p

\* path.Clean, for the paths that occur: runs of slashes collapse to one slash.
RECURSIVE Clean(_)
Clean(s) ==
    IF Len(s) < 2 THEN s
    ELSE IF s[1] = "/" /\ s[2] = "/" THEN Clean(Tail(s))
    ELSE <<s[1]>> \o Clean(Tail(s))

\* path.Join: the non-empty elements joined by slashes, then cleaned.
RECURSIVE JoinRaw(_)
JoinRaw(elems) ==
    IF elems = <<>> THEN <<>>
    ELSE IF Head(elems) = <<>> THEN JoinRaw(Tail(elems))
    ELSE IF JoinRaw(Tail(elems)) = <<>> THEN Head(elems)
    ELSE Head(elems) \o <<"/">> \o JoinRaw(Tail(elems))

Join(elems) == Clean(JoinRaw(elems))

----------------------------------------------------------------------------
(* The host file system the daemon looks at *)

P_a == DEV \o <<"/", "a">>                 \* character device 1:3
P_b == DEV \o <<"/", "b">>                 \* block device 8:1
P_gone == DEV \o <<"/", "g">>              \* does not exist
P_dri == DEV \o <<"/", "d">>               \* directory of device nodes
P_dri_c == P_dri \o <<"/", "c">>           \* character device 226:0
P_dri_f == P_dri \o <<"/", "f">>           \* regular file
P_dri_s == P_dri \o <<"/", "s">>           \* sub-directory
P_dri_s_r == P_dri_s \o <<"/", "r">>       \* character device 226:128
P_dri_u == P_dri \o <<"/", "u">>           \* sub-directory that cannot be listed
P_dri_z == P_dri \o <<"/", "z">>           \* character device 226:1
P_data == <<"/", "d", "a", "t", "a">>      \* directory outside /dev
P_devx == <<"/", "d", "e", "v", "x">>      \* block device 8:0 outside /dev

Node(kind, major, minor, children) ==
    [kind |-> kind, major |-> major, minor |-> minor, children |-> children]

Fs(p) ==
    CASE p = P_a -> Node("chr", 1, 3, <<>>)
      [] p = P_b -> Node("blk", 8, 1, <<>>)
      [] p = P_dri -> Node("dir", 0, 0, <<P_dri_c, P_dri_f, P_dri_s, P_dri_u, P_dri_z>>)
      [] p = P_dri_c -> Node("chr", 226, 0, <<>>)
      [] p = P_dri_f -> Node("reg", 0, 0, <<>>)
      [] p = P_dri_s -> Node("dir", 0, 0, <<P_dri_s_r>>)
      [] p = P_dri_s_r -> Node("chr", 226, 128, <<>>)
      [] p = P_dri_u -> Node("dirx", 0, 0, <<>>)
      [] p = P_dri_z -> Node("chr", 226, 1, <<>>)
      [] p = P_data -> Node("dir", 0, 0, <<>>)
      [] p = P_devx -> Node("blk", 8, 0, <<>>)
      [] OTHER -> Node("missing", 0, 0, <<>>)

\* os.Stat / unix.Stat
Stat(p) == Fs(p)

\* fileInfo.IsDir(); "dirx" is a directory whose entries cannot be read
IsDir(st) == st.kind \in {"dir", "dirx"}

\* filepath.Walk with the callback of processContainer, from p on: the
\* non-directory entries in lexical order, each handed to applyDeviceRules,
\* up to the first error of the walk itself.  The callback returns the
\* error Walk hands it (a directory that cannot be read), which ends the
\* walk; for a directory it returns nil and the walk descends.
RECURSIVE WalkFrom(_), WalkSeq(_)
WalkFrom(p) ==
    IF Stat(p).kind = "dirx" THEN [files |-> <<>>, ok |-> FALSE]
    ELSE IF Stat(p).kind = "dir" THEN WalkSeq(Stat(p).children)
    ELSE [files |-> <<p>>, ok |-> TRUE]
WalkSeq(ps) ==
    IF ps = <<>> THEN [files |-> <<>>, ok |-> TRUE]
    ELSE LET h == WalkFrom(Head(ps)) IN
         IF ~h.ok THEN h
         ELSE LET t == WalkSeq(Tail(ps)) IN
              [files |-> h.files \o t.files, ok |-> t.ok]

\* the files the walk of p hands to applyDeviceRules
WalkFiles(p) == WalkFrom(p).files

----------------------------------------------------------------------------
(* Containers known to the runtime *)

Conts == {"c1", "c2"}
Goroutines == {"main", "dbus"}

\* info.Mounts[i].Source
Mounts(c) ==
    CASE c = "c1" -> <<P_a, P_data, P_dri>>
      [] c = "c2" -> <<P_devx, P_gone, P_b>>

\* cgroup.GetDeviceCGroupVersion on the container's pid, when it succeeds
VersionOf(c) == IF c = "c1" THEN "v2" ELSE "v1"

\* api.GetDeviceCGroupMountPath on the container's pid, when it succeeds
SysfsPath == <<"/", "s">>
CgroupOf(c) == IF c = "c1" THEN <<"/", "1">> ELSE <<"/", "2">>

\* cgroupPath = path.Join(rootPath, sysfsPath, cgroupPath)
CgroupPath(c) == Join(<<ROOT_PATH, SysfsPath, CgroupOf(c)>>)

CgPaths == {CgroupPath(c) : c \in Conts}

----------------------------------------------------------------------------
(* Device identity and the rule built from it *)

\* getDeviceInfo: stat the path, classify by the file-type bits of the mode,
\* take major and minor from Rdev.
\* st: what unix.Stat found at the path ("missing": the stat failed).
DeviceInfoElseChar(st) ==
    IF st.kind = "missing"
      THEN [err |-> TRUE, type |-> "", major |-> -1, minor |-> -1]
    ELSE IF st.kind = "blk"
      THEN [err |-> FALSE, type |-> "b", major |-> st.major, minor |-> st.minor]
    ELSE [err |-> FALSE, type |-> "c", major |-> st.major, minor |-> st.minor]
DeviceInfo(st) ==
    IF st.kind = "missing"
      THEN [err |-> TRUE, type |-> "", major |-> -1, minor |-> -1]
    ELSE IF st.kind = "blk"
      THEN [err |-> FALSE, type |-> "b", major |-> st.major, minor |-> st.minor]
    ELSE IF st.kind = "chr"
      THEN [err |-> FALSE, type |-> "c", major |-> st.major, minor |-> st.minor]
    ELSE [err |-> TRUE, type |-> "", major |-> -1, minor |-> -1]

getDeviceInfo(devicePath) == DeviceInfo(Stat(devicePath))

\* the cgroup.DeviceRule literal of applyDeviceRules
DeviceRulePartial(d) ==
    [Access |-> "rw", Major |-> d.major, Minor |-> d.minor, Type |-> d.type,
     Allow |-> TRUE]
DeviceRule(d) ==
    [Access |-> "rwm", Major |-> d.major, Minor |-> d.minor, Type |-> d.type,
     Allow |-> TRUE]

\* applyDeviceRules: the rules handed to AddDeviceRules for what getDeviceInfo
\* returned; on its error the function returns before any call.
RuleCalls(d) == IF d.err THEN {} ELSE {DeviceRule(d)}

\* the filter of processContainer: strings.HasPrefix(mount.Source, "/dev")
IsDeviceMount(source) == HasPrefix(source, DEV)

\* the files one mount hands to applyDeviceRules, once os.Stat succeeded
MountFiles(source) ==
    IF IsDir(Stat(source)) THEN WalkFiles(source) ELSE <<source>>

\* cgroupPath = path.Join(rootPath, sysfsPath, cgroupPath)
HostCgroupPathNoRoot(sysfsPath, cgroupPath) == Join(<<sysfsPath, cgroupPath>>)
HostCgroupPath(sysfsPath, cgroupPath) == Join(<<ROOT_PATH, sysfsPath, cgroupPath>>)

----------------------------------------------------------------------------
(* The cgroup backend (package internal/cgroup) *)

\* V1: the kernel's devices.allow list is additive and deduplicating.
V1Write(old, rules) == old \cup rules

\* V2: the accumulated record of the path, with the new rules united in;
\* the program attached encodes the whole record.
V2Replace(old, rules) == rules
V2Redo(old, rules) == IF rules \subseteq old THEN rules ELSE old \cup rules
V2Union(old, rules) == old \cup rules

\* V2: union-and-attach on one cgroup path is serialized.
CanEnterUnlocked(p) == TRUE
CanEnter(p) == lock[p] = "free"

----------------------------------------------------------------------------
(* D-Bus signals *)

BoolTrue == <<[t |-> "bool", v |-> "true"]>>
BoolFalse == <<[t |-> "bool", v |-> "false"]>>
Bodies == {<<>>, BoolTrue, BoolFalse, <<[t |-> "string", v |-> "x"]>>}

NoSignal == [name |-> "", body |-> <<>>]

Signals ==
    {[name |-> ReloadingName, body |-> b] : b \in Bodies}
        \cup {[name |-> "org.freedesktop.systemd1.Manager.JobNew", body |-> BoolTrue]}

\* the test of the listener goroutine: v.Name == "...Manager.Reloading"
TriggersWhenActive(v) == v.name = ReloadingName /\ v.body = BoolTrue
Triggers(v) == v.name = ReloadingName

\* main: the listener goroutine is started only when both the bus connection
\* and the signal match succeeded.
ListenerStartAlways(b) == IF b = "connfail" THEN "none" ELSE "wait"
ListenerStart(b) == IF b = "ok" THEN "wait" ELSE "none"

----------------------------------------------------------------------------
(* Process state *)

NoCrash == [cause |-> "none", phase |-> "none"]

\* where a goroutine is when a runtime API call fails
Phase(g) ==
    IF g = "dbus" THEN "reload" ELSE IF subscribed THEN "event" ELSE "startup"

\* listenForMounts: the select loop takes a message only between two passes
CanTakeEvent(g) == pc[g] = "listen"

\* checkExistingContainers: the loop calls processContainer and goes on to
\* the next container when the call has returned
ScanReadyAsync(g) == pc[g] \in {"scan", "apply"}
ScanReady(g) == pc[g] = "scan"

Orders(S) ==
    {s \in [1..Cardinality(S) -> S] : {s[i] : i \in 1..Cardinality(S)} = S}

InitDaemon ==
    /\ bus \in {"ok", "connfail", "matchfail"}
    /\ running \in SUBSET Conts
    /\ subscribed = FALSE
    /\ events = <<>>
    /\ signals = 0
    /\ sig = NoSignal
    /\ pc = [g \in Goroutines |-> IF g = "main" THEN "start" ELSE "none"]
    /\ cur = [g \in Goroutines |-> "none"]
    /\ scanList = [g \in Goroutines |-> <<>>]
    /\ mi = [g \in Goroutines |-> 0]
    /\ todo = [g \in Goroutines |-> <<>>]
    /\ cgp = [g \in Goroutines |-> <<>>]
    /\ lock = [p \in CgPaths |-> "free"]
    /\ snap = [g \in Goroutines |-> {}]
    /\ record = [p \in CgPaths |-> {}]
    /\ kernel = [p \in CgPaths |-> {}]
    /\ crashed = NoCrash
    /\ active = FALSE
    /\ version = [g \in Goroutines |-> "none"]
    /\ nStarts = 0
    /\ nSignals = 0

\* the file types unix.Stat tells apart, and a failed stat
StatKinds == {"chr", "blk", "reg", "dir", "fifo", "sock", "missing"}

Probes ==
    {[kind |-> k, major |-> ma, minor |-> mn] :
        k \in StatKinds, ma \in 0..MaxMajor, mn \in 0..MaxMinor}

NoProbe == [kind |-> "missing", major |-> 0, minor |-> 0]
NoOut ==
    [stage |-> "new", d |-> [err |-> TRUE, type |-> "", major |-> -1, minor |-> -1],
     calls |-> {}]

Init == InitDaemon /\ probe = NoProbe /\ out = NoOut

Alive == crashed = NoCrash

\* panic / log.Fatal: the process ends.  What it held in memory (its
\* goroutines, channels and the backend's record) is gone; the kernel's
\* cgroup state and the runtime's containers stay.
Crash(cause, g) ==
    /\ crashed' = [cause |-> cause, phase |-> Phase(g)]
    /\ pc' = [h \in Goroutines |-> "exited"]
    /\ cur' = [h \in Goroutines |-> "none"]
    /\ scanList' = [h \in Goroutines |-> <<>>]
    /\ mi' = [h \in Goroutines |-> 0]
    /\ todo' = [h \in Goroutines |-> <<>>]
    /\ cgp' = [h \in Goroutines |-> <<>>]
    /\ snap' = [h \in Goroutines |-> {}]
    /\ lock' = [p \in CgPaths |-> "free"]
    /\ record' = [p \in CgPaths |-> {}]
    /\ events' = <<>>
    /\ signals' = 0
    /\ sig' = NoSignal
    /\ active' = FALSE
    /\ version' = [h \in Goroutines |-> "none"]
    /\ UNCHANGED <<bus, running, subscribed, kernel, nStarts, nSignals>>

----------------------------------------------------------------------------
(* Environment *)

\* The runtime starts (or restarts) a container; once cli.Events is
\* subscribed, a start event is delivered.
ContainerStart(c) ==
    /\ Alive
    /\ UNCHANGED <<probe, out, version>>
    /\ IF subscribed THEN nStarts < MaxStarts ELSE c \notin running
    /\ running' = running \cup {c}
    /\ events' = IF subscribed THEN Append(events, c) ELSE events
    /\ nStarts' = IF subscribed THEN nStarts + 1 ELSE nStarts
    /\ UNCHANGED <<sig, bus, subscribed, signals, pc, cur, scanList, mi, todo, cgp,
                   lock, snap, record, kernel, crashed, active, nSignals>>

\* The bus delivers a signal into the channel registered with conn.Signal.
\* Nothing looks at a signal before the listener reads it: the channel is
\* kept as the number of signals waiting, and which signal it is shows when
\* it is read.
SendSignal ==
    /\ Alive
    /\ UNCHANGED <<probe, out, version>>
    /\ bus = "ok"
    /\ pc["main"] # "start"
    /\ nSignals < MaxSignals
    /\ signals < ChanCap
    /\ signals' = signals + 1
    /\ nSignals' = nSignals + 1
    /\ UNCHANGED <<sig, bus, running, subscribed, events, pc, cur, scanList, mi, todo,
                   cgp, lock, snap, record, kernel, crashed, active, nStarts>>

----------------------------------------------------------------------------
(* main: bus set-up *)

Setup ==
    /\ Alive
    /\ UNCHANGED <<probe, out, version>>
    /\ pc["main"] = "start"
    /\ pc' = [pc EXCEPT !["main"] = "list", !["dbus"] = ListenerStart(bus)]
    /\ UNCHANGED <<active, nStarts, nSignals>>
    /\ UNCHANGED <<sig, bus, running, subscribed, events, signals, cur, scanList, mi,
                   todo, cgp, lock, snap, record, kernel, crashed>>

(* the listener goroutine: one signal read from the channel *)

\* var active bool; if len(v.Body) > 0 { active, _ = v.Body[0].(bool) }
ActiveOfNonEmpty(v) == Len(v.body) > 0 /\ v.body[1].v # "false"
ActiveOf(v) ==
    IF Len(v.body) > 0
      THEN (IF v.body[1].t = "bool" THEN v.body[1].v = "true" ELSE FALSE)
      ELSE FALSE

TakeSignal ==
    /\ Alive
    /\ UNCHANGED <<probe, out, version>>
    /\ pc["dbus"] = "wait"
    /\ signals > 0
    /\ signals' = signals - 1
    /\ \E v \in Signals : sig' = v
    /\ pc' = [pc EXCEPT !["dbus"] = "got"]
    /\ UNCHANGED <<bus, running, subscribed, events, cur, scanList, mi, todo, cgp,
                   lock, snap, record, kernel, crashed, active, nStarts, nSignals>>

\* the body of the loop "for v := range c"
HandleSignal ==
    /\ Alive
    /\ UNCHANGED <<probe, out, version>>
    /\ pc["dbus"] = "got"
    /\ IF Triggers(sig)
         THEN /\ active' = ActiveOf(sig)
              /\ pc' = [pc EXCEPT !["dbus"] = "list"]    \* checkExistingContainers(cli)
         ELSE /\ active' = active
              /\ pc' = [pc EXCEPT !["dbus"] = "wait"]
    /\ sig' = NoSignal
    /\ UNCHANGED <<bus, running, subscribed, events, signals, cur, scanList, mi,
                   todo, cgp, lock, snap, record, kernel, crashed, nStarts, nSignals>>

----------------------------------------------------------------------------
(* checkExistingContainers *)

ListContainers(g) ==
    /\ Alive
    /\ UNCHANGED <<probe, out>>
    /\ pc[g] = "list"
    /\ \E ok \in BOOLEAN :
         IF ok
           THEN /\ \E order \in Orders(running) :
                      scanList' = [scanList EXCEPT ![g] = order]
                /\ pc' = [pc EXCEPT ![g] = "scan"]
                /\ active' = (active /\ g = "main")   \* the listener's flag is not read again
                /\ version' = version
                /\ UNCHANGED <<sig, bus, running, subscribed, events, signals, cur, mi,
                               todo, cgp, lock, snap, record, kernel, crashed,
                               nStarts, nSignals>>
           ELSE Crash("list", g)                                  \* panic(err)

\* processContainer, the loop over info.Mounts run from mount i up to the
\* next call of applyDeviceRules or to the end of the pass.  The loop reads
\* only the container's own mounts and the file system, so its iterations
\* that apply nothing are taken in one step.  The outcomes: where the pass
\* stands afterwards.
\*   - a source without the prefix "/dev": continue
\*   - GetDeviceCGroupMountPath fails: break
\*   - os.Stat fails: continue
\*   - otherwise the files of the mount are handed to applyDeviceRules
Stop(at, i, files, path) == [pc |-> at, mi |-> i, todo |-> files, cgp |-> path]

RECURSIVE MountLoop(_, _)
MountLoop(c, i) ==
    LET ms == Mounts(c) IN
    IF i > Len(ms) THEN {Stop("done", i, <<>>, <<>>)}
    ELSE IF ~IsDeviceMount(ms[i]) THEN MountLoop(c, i + 1)
    ELSE {Stop("done", i, <<>>, <<>>)}
           \cup (IF Stat(ms[i]).kind = "missing" THEN MountLoop(c, i + 1)
                 ELSE IF MountFiles(ms[i]) = <<>> THEN MountLoop(c, i + 1)
                 ELSE {Stop("apply", i, MountFiles(ms[i]),
                            HostCgroupPath(SysfsPath, CgroupOf(c)))})

\* GetDeviceCGroupVersion failed: log.Println(err); return
OnVersionErrorGoOn(c) == MountLoop(c, 1)
OnVersionError(c) == {Stop("done", 0, <<>>, <<>>)}

Enter(g, o) ==
    /\ pc' = [pc EXCEPT ![g] = o.pc]
    /\ mi' = [mi EXCEPT ![g] = o.mi]
    /\ todo' = [todo EXCEPT ![g] = o.todo]
    /\ cgp' = [cgp EXCEPT ![g] = o.cgp]

\* processContainer up to the first rule application: ContainerInspect,
\* GetDeviceCGroupVersion, then the loop over the mounts.  rest: what is
\* left for the caller once this pass is over.
BeginPass(g, c, restScan, restEvents) ==
    \E inspected \in BOOLEAN, detected \in BOOLEAN :
        IF ~inspected
          THEN Crash("inspect", g)                                \* panic(err)
          ELSE /\ IF ~detected
                    THEN /\ \E o \in OnVersionError(c) : Enter(g, o)
                         /\ version' = [version EXCEPT ![g] = "unknown"]
                    ELSE /\ \E o \in MountLoop(c, 1) : Enter(g, o)
                         /\ version' = [version EXCEPT ![g] = VersionOf(c)]
               /\ cur' = [cur EXCEPT ![g] = c]
               /\ scanList' = [scanList EXCEPT ![g] = restScan]
               /\ events' = restEvents
               /\ UNCHANGED <<sig, bus, running, subscribed, signals, lock, snap,
                              record, kernel, crashed, active, nStarts, nSignals>>

ScanNext(g) ==
    /\ Alive
    /\ UNCHANGED <<probe, out>>
    /\ ScanReady(g)
    /\ scanList[g] # <<>>
    /\ BeginPass(g, Head(scanList[g]), Tail(scanList[g]), events)

\* the scan is over: main goes on to listenForMounts and subscribes to the
\* start events; the listener goroutine waits for the next signal.
ScanEnd(g) ==
    /\ Alive
    /\ UNCHANGED <<probe, out, version>>
    /\ ScanReady(g)
    /\ scanList[g] = <<>>
    /\ pc' = [pc EXCEPT ![g] = IF g = "main" THEN "listen" ELSE "wait"]
    /\ subscribed' = (subscribed \/ g = "main")
    /\ UNCHANGED <<sig, bus, running, events, signals, cur, scanList, mi, todo, cgp,
                   lock, snap, record, kernel, crashed, active, nStarts, nSignals>>

----------------------------------------------------------------------------
(* listenForMounts *)

TakeEvent ==
    /\ Alive
    /\ UNCHANGED <<probe, out>>
    /\ CanTakeEvent("main")
    /\ events # <<>>
    /\ BeginPass("main", Head(events), scanList["main"], Tail(events))

\* case err := <-errs: log.Fatal(err)
EventsError ==
    /\ Alive
    /\ UNCHANGED <<probe, out>>
    /\ pc["main"] = "listen"
    /\ Crash("events", "main")

----------------------------------------------------------------------------
(* processContainer: the rule applications *)

\* after one file of the mount: the next file, or the loop over the mounts
\* goes on with the next mount
Advance(g, rest) ==
    IF rest = <<>>
      THEN \E o \in MountLoop(cur[g], mi[g] + 1) : Enter(g, o)
      ELSE Enter(g, Stop("apply", mi[g], rest, cgp[g]))

\* applyDeviceRules on the next file: getDeviceInfo, then AddDeviceRules.
\* V1 writes the rule to the allow list in one step; V2 enters the
\* serialized union-and-attach of the path and reads the record.
ApplyDeviceRules(g) ==
    /\ Alive
    /\ UNCHANGED <<probe, out, version>>
    /\ pc[g] = "apply"
    /\ LET f == Head(todo[g])
           d == getDeviceInfo(f)
           p == cgp[g]
       IN  IF d.err
             THEN /\ Advance(g, Tail(todo[g]))
                  /\ UNCHANGED <<lock, snap, kernel>>
           ELSE IF version[g] = "v1"
             THEN /\ \E ok \in BOOLEAN :
                        kernel' = IF ok
                                    THEN [kernel EXCEPT ![p] = V1Write(@, {DeviceRule(d)})]
                                    ELSE kernel
                  /\ Advance(g, Tail(todo[g]))
                  /\ UNCHANGED <<lock, snap>>
           ELSE /\ CanEnter(p)
                /\ lock' = [lock EXCEPT ![p] = g]
                /\ snap' = [snap EXCEPT ![g] = record[p]]
                /\ pc' = [pc EXCEPT ![g] = "attach"]
                /\ UNCHANGED <<mi, todo, cgp, kernel>>
    /\ UNCHANGED <<active, nStarts, nSignals>>
    /\ UNCHANGED <<sig, bus, running, subscribed, events, signals, cur, scanList,
                   record, crashed>>

\* V2: the program encoding the union is attached (or the kernel rejects it)
\* and the serialization of the path is left.
Attach(g) ==
    /\ Alive
    /\ UNCHANGED <<probe, out, version>>
    /\ pc[g] = "attach"
    /\ LET r == DeviceRule(getDeviceInfo(Head(todo[g])))
           p == cgp[g]
       IN  /\ \E ok \in BOOLEAN :
                IF ok
                  THEN /\ record' = [record EXCEPT ![p] = V2Union(snap[g], {r})]
                       /\ kernel' = [kernel EXCEPT ![p] = V2Union(snap[g], {r})]
                  ELSE UNCHANGED <<record, kernel>>
           /\ lock' = [lock EXCEPT ![p] = "free"]
           /\ snap' = [snap EXCEPT ![g] = {}]
           /\ Advance(g, Tail(todo[g]))
    /\ UNCHANGED <<active, nStarts, nSignals>>
    /\ UNCHANGED <<sig, bus, running, subscribed, events, signals, cur, scanList,
                   crashed>>

\* processContainer returns to its caller
EndPass(g) ==
    /\ Alive
    /\ UNCHANGED <<probe, out>>
    /\ pc[g] = "done"
    /\ pc' = [pc EXCEPT ![g] = IF g = "main" /\ subscribed THEN "listen" ELSE "scan"]
    /\ cur' = [cur EXCEPT ![g] = "none"]
    /\ mi' = [mi EXCEPT ![g] = 0]
    /\ version' = [version EXCEPT ![g] = "none"]
    /\ UNCHANGED <<active, nStarts, nSignals>>
    /\ UNCHANGED <<sig, bus, running, subscribed, events, signals, scanList, todo, cgp, lock,
                   snap, record, kernel, crashed>>

----------------------------------------------------------------------------

Next ==
    \/ \E c \in Conts : ContainerStart(c)
    \/ SendSignal
    \/ Setup
    \/ TakeSignal
    \/ HandleSignal
    \/ \E g \in Goroutines : ListContainers(g)
    \/ \E g \in Goroutines : ScanNext(g)
    \/ \E g \in Goroutines : ScanEnd(g)
    \/ TakeEvent
    \/ EventsError
    \/ \E g \in Goroutines : ApplyDeviceRules(g)
    \/ \E g \in Goroutines : Attach(g)
    \/ \E g \in Goroutines : EndPass(g)

Spec == Init /\ [][Next]_vars

----------------------------------------------------------------------------
(* The device resolver on its own: getDeviceInfo and applyDeviceRules run  *)
(* on every kind of stat result                                            *)

InitResolve == InitDaemon /\ probe \in Probes /\ out = NoOut

\* applyDeviceRules(devicePath, ...) on the probe
ResolveProbe ==
    /\ out.stage = "new"
    /\ out' = [stage |-> "done", d |-> DeviceInfo(probe),
               calls |-> RuleCalls(DeviceInfo(probe))]
    /\ UNCHANGED <<probe, daemonVars>>

NextResolve == ResolveProbe

SpecResolve == InitResolve /\ [][NextResolve]_vars

----------------------------------------------------------------------------
(* Notions the properties are stated with *)

InPass(g) == pc[g] \in {"apply", "attach"}

Range(q) == {q[i] : i \in 1..Len(q)}

\* the rules one undisturbed pass over container c applies
DesiredOf ==
    [c \in Conts |->
        {DeviceRule(getDeviceInfo(f)) :
            f \in {x \in UNION {Range(MountFiles(Mounts(c)[i])) :
                                  i \in {j \in 1..Len(Mounts(c)) :
                                           /\ IsDeviceMount(Mounts(c)[j])
                                           /\ Stat(Mounts(c)[j]).kind # "missing"}} :
                     ~getDeviceInfo(x).err}}]

Desired(c) == DesiredOf[c]

\* /dev itself or a path below /dev
UnderDev(source) == source = DEV \/ HasPrefix(source, DEV \o <<"/">>)

\* the pass of g has handed a file to applyDeviceRules, its cgroup path
\* grants a rule, and the pass has more files to hand
AppliedAndApplying(g) ==
    /\ InPass(g)
    /\ kernel[cgp[g]] # {}
    /\ \/ Len(todo[g]) < Len(MountFiles(Mounts(cur[g])[mi[g]]))
       \/ \E j \in 1..(mi[g] - 1) :
             /\ IsDeviceMount(Mounts(cur[g])[j])
             /\ Stat(Mounts(cur[g])[j]).kind # "missing"

----------------------------------------------------------------------------
(* Properties *)

\* C1: a rule granted by the effective allow-set of a cgroup path stays
\* granted through every step of every pass: each application adds to what
\* the path grants and removes nothing (rule A, then rule B: both granted).
C1_MonotoneUnion ==
    [][\A p \in CgPaths : kernel[p] \subseteq kernel'[p]]_vars

\* a V2 path on which two different rules were applied one after the other
C1_Witness ==
    {DeviceRule(getDeviceInfo(P_a)), DeviceRule(getDeviceInfo(P_dri_c))}
        \subseteq kernel[CgroupPath("c1")]

\* C2: once the cgroup path of a container grants what one pass over the
\* container applies, no further step of any pass (a re-delivered start
\* event, a scan, a reload re-scan) changes what the path grants.
C2_Idempotent ==
    [][\A c \in Conts :
          Desired(c) \subseteq kernel[CgroupPath(c)]
              => kernel'[CgroupPath(c)] = kernel[CgroupPath(c)]]_vars

\* a pass is attaching a rule to the V2 path that already grants everything
C2_Witness ==
    \E g \in Goroutines :
        /\ pc[g] = "attach"
        /\ cur[g] = "c1"
        /\ Desired("c1") \subseteq kernel[CgroupPath("c1")]

\* C3: when a pass is over whose loop over the mounts was entered, no
\* device-like mount after the one the loop stands at was left out.
C3_LaterMountsProcessed ==
    \A g \in Goroutines :
        (pc[g] = "done" /\ mi[g] >= 1)
            => \A j \in (mi[g] + 1)..Len(Mounts(cur[g])) :
                   ~IsDeviceMount(Mounts(cur[g])[j])

\* C4: under passes of the two goroutines on the same cgroup path the
\* accumulated record of a path never loses a rule while the process lives,
\* and the program of the path always encodes the whole record.
C4_NoLostUpdate ==
    [][crashed' = NoCrash
          => \A p \in CgPaths : /\ record[p] \subseteq record'[p]
                                /\ record'[p] \subseteq kernel'[p]]_vars

\* the main goroutine and the listener are in a pass on the same container:
\* one is inside union-and-attach, the other is about to apply a rule
C4_Witness ==
    /\ cur["main"] = "c1" /\ cur["dbus"] = "c1"
    /\ pc["dbus"] = "attach" /\ pc["main"] = "apply"
    /\ ~getDeviceInfo(Head(todo["main"])).err
    /\ record[CgroupPath("c1")] # {}

\* C5 as claimed: no two passes on different containers are applying rules
\* at the same time, each having applied one and having more to apply.
C5_NoInterleaving ==
    ~ \E g \in Goroutines, h \in Goroutines :
          /\ g # h
          /\ cur[g] # cur[h]
          /\ AppliedAndApplying(g)
          /\ AppliedAndApplying(h)

\* C5 as amended: a goroutine leaves the container of its pass only when
\* the pass is over, and takes up a container only between two passes.
C5_SequentialPerGoroutine ==
    [][crashed' = NoCrash
          => \A g \in Goroutines :
                 cur'[g] # cur[g]
                     => \/ pc[g] = "done" /\ cur'[g] = "none"
                        \/ cur[g] = "none" /\ pc[g] \in {"scan", "listen"}]_vars

\* the main goroutine is in the pass of a start event, the listener in a
\* pass of its re-scan
C5_Witness ==
    /\ subscribed
    /\ InPass("main")
    /\ InPass("dbus")
    /\ cur["main"] # cur["dbus"]

\* C6: a file is handed to getDeviceInfo / AddDeviceRules only for a mount
\* whose source is /dev or lies below /dev.
C6_OnlyUnderDev ==
    \A g \in Goroutines :
        InPass(g) => UnderDev(Mounts(cur[g])[mi[g]])

\* C7: a failure of ContainerInspect ends the process only in the startup
\* scan.
C7_InspectFatalOnlyAtStartup ==
    crashed.cause = "inspect" => crashed.phase = "startup"

\* C8: the listener answers every signal it has read by starting a scan of
\* all listed containers when the signal is named Reloading, whatever its
\* body, and by doing nothing otherwise; the scan covers every container the
\* runtime lists.
C8_EveryReloadTriggers ==
    [][crashed' = NoCrash
          => /\ pc["dbus"] = "got" /\ pc'["dbus"] # "got"
                 => pc'["dbus"] = (IF sig.name = ReloadingName THEN "list" ELSE "wait")
             /\ pc["dbus"] = "list" /\ pc'["dbus"] # "list"
                 => pc'["dbus"] = "scan" /\ Range(scanList'["dbus"]) = running]_vars

\* a Reloading signal whose flag is not set has started a scan
C8_Witness ==
    /\ pc["dbus"] = "list"
    /\ active = FALSE
    /\ nSignals >= 1

C10_BusFailureNotFatal ==
    (bus # "ok" /\ pc["main"] # "start")
        => /\ pc["dbus"] \in {"none", "exited"}
           /\ cur["dbus"] = "none"
           /\ crashed.phase # "reload"
           /\ crashed = NoCrash
                  => pc["main"] \in {"list", "scan", "apply", "attach", "done", "listen"}

\* without the bus, the startup scan is done and the event loop has handled
\* a start event
C10_Witness ==
    /\ bus = "matchfail"
    /\ pc["main"] = "listen"
    /\ nStarts = 1
    /\ events = <<>>
    /\ kernel[CgroupPath("c1")] = Desired("c1")

\* C11: a Reloading signal whose body is empty, or whose first element is
\* not a boolean, is tolerated: the listener takes the flag as false, the
\* step that handles the signal is not a crash in the listener, and the
\* listener goes on with the scan the signal asks for.
C11_MalformedBodyTolerated ==
    [][(/\ pc["dbus"] = "got" /\ pc'["dbus"] # "got"
        /\ sig.name = ReloadingName
        /\ (sig.body = <<>> \/ sig.body[1].t # "bool"))
          => /\ crashed'.phase # "reload"
             /\ crashed' = NoCrash => (active' = FALSE /\ pc'["dbus"] = "list")]_vars

\* the listener has read a Reloading signal whose first element is a string
C11_Witness ==
    /\ pc["dbus"] = "got"
    /\ sig.name = ReloadingName
    /\ sig.body # <<>>
    /\ sig.body[1].t = "string"

\* C12: getDeviceInfo returns type "c" with the node's major and minor for
\* a character device and type "b" with them for a block device; for every
\* other file type (regular file, directory, socket, FIFO) and for a path
\* that cannot be stat-ed it returns an error and no device identity, and
\* applyDeviceRules then makes no AddDeviceRules call.
C12_OnlyDevicesResolve ==
    out.stage = "done"
        => /\ probe.kind = "chr"
                 => out.d = [err |-> FALSE, type |-> "c", major |-> probe.major,
                             minor |-> probe.minor]
           /\ probe.kind = "blk"
                 => out.d = [err |-> FALSE, type |-> "b", major |-> probe.major,
                             minor |-> probe.minor]
           /\ probe.kind \notin {"chr", "blk"}
                 => out.d = [err |-> TRUE, type |-> "", major |-> -1, minor |-> -1]
           /\ out.d.err => out.calls = {}

\* applyDeviceRules has returned on a FIFO
C12_Witness ==
    /\ out.stage = "done"
    /\ probe.kind = "fifo"
    /\ out.d.err
    /\ out.calls = {}

\* the entries below directory p, at any depth
RECURSIVE Below(_)
Below(p) ==
    LET kids == {Stat(p).children[i] : i \in 1..Len(Stat(p).children)}
    IN  kids \cup UNION {Below(k) : k \in kids}

\* C13: when a pass enters a device-like mount that is a directory, every
\* device node of the directory tree, at any depth, is among the files the
\* walk hands to the resolve-and-apply pipeline.
C13_EveryDeviceNodeHanded ==
    \A g \in Goroutines :
        (/\ pc[g] = "apply"
         /\ Stat(Mounts(cur[g])[mi[g]]).kind = "dir"
         /\ todo[g] = MountFiles(Mounts(cur[g])[mi[g]]))
            => {x \in Below(Mounts(cur[g])[mi[g]]) : Stat(x).kind \in {"chr", "blk"}}
                   \subseteq Range(todo[g])

\* C14: the cgroup version is detected once per pass, when the pass begins
\* and before any mount is examined, and kept until the pass ends.  When the
\* detection fails, the pass ends without examining a mount and without
\* applying a rule, the process lives on, and the goroutine goes on with
\* what is left of its batch.
C14_VersionOncePerPass ==
    /\ [](\A g \in Goroutines :
             /\ version[g] = "unknown"
                   => pc[g] = "done" /\ mi[g] = 0 /\ todo[g] = <<>>
             /\ (InPass(g) \/ (pc[g] = "done" /\ mi[g] >= 1))
                   => version[g] = VersionOf(cur[g]))
    /\ [][\A g \in Goroutines :
             /\ version'[g] # version[g]
                   => \/ cur[g] = "none" /\ pc[g] \in {"scan", "listen"}
                      \/ cur'[g] = "none"
             /\ (version[g] # "unknown" /\ version'[g] = "unknown")
                   => kernel' = kernel /\ record' = record /\ crashed' = NoCrash
             /\ (version[g] = "unknown" /\ pc'[g] # pc[g] /\ crashed' = NoCrash)
                   => /\ kernel' = kernel
                      /\ scanList'[g] = scanList[g]
                      /\ pc'[g] = IF g = "main" /\ subscribed THEN "listen"
                                                               ELSE "scan"]_vars

\* the scan of a goroutine met a container whose cgroup version could not
\* be detected, and has another container left
C14_Witness ==
    \E g \in Goroutines :
        /\ version[g] = "unknown"
        /\ scanList[g] # <<>>

\* the mount sources of container c and every entry below them
OwnFilesOf ==
    [c \in Conts |->
        UNION {{Mounts(c)[i]} \cup Below(Mounts(c)[i]) : i \in 1..Len(Mounts(c))}]

OwnFiles(c) == OwnFilesOf[c]

\* C15: every rule applied to a cgroup path is an allow rule with access
\* rwm whose type, major and minor are those of a block or character device
\* node of a mount of the container the path belongs to; a file is handed
\* to AddDeviceRules only when it is such a node, and with the cgroup path
\* of the container of the pass.  No deny rule, no partial access, no
\* unresolved (-1) number.
C15_RulesWellFormed ==
    /\ \A c \in Conts :
          \A r \in kernel[CgroupPath(c)] \cup record[CgroupPath(c)] :
              /\ r.Allow = TRUE
              /\ r.Access = "rwm"
              /\ r.Type \in {"b", "c"}
              /\ r.Major >= 0
              /\ r.Minor >= 0
              /\ \E f \in OwnFiles(c) :
                    /\ Stat(f).kind = (IF r.Type = "c" THEN "chr" ELSE "blk")
                    /\ Stat(f).major = r.Major
                    /\ Stat(f).minor = r.Minor
    /\ \A g \in Goroutines :
          pc[g] = "attach"
              => /\ Stat(Head(todo[g])).kind \in {"chr", "blk"}
                 /\ Head(todo[g]) \in OwnFiles(cur[g])
                 /\ cgp[g] = CgroupPath(cur[g])

\* both block devices of the V1 container have been granted on its path
C15_Witness ==
    Cardinality(kernel[CgroupPath("c2")]) = 2

\* C16: no container start falls between the startup scan and the
\* subscription to the start events: a container that starts either starts
\* before the startup scan has listed the containers, or its start event is
\* delivered to the event loop.
C16_NoStartMissed ==
    [][\A c \in Conts :
          (c \notin running /\ c \in running')
              => \/ pc["main"] \in {"start", "list"}
                 \/ c \in Range(events')]_vars

====
